---- MODULE Spec2Model ----
(***************************************************************************)
(* A model of tailscale-kube-proxy: the reverse proxy that maps a          *)
(* Tailscale identity to Kubernetes impersonation headers, the Secret      *)
(* backed state store (the synchronous one, "A", and the cached and        *)
(* watched one, "B"), and the Tailscale watchdog.                          *)
(*                                                                         *)
(* The specifications share the variables: SpecProxy, SpecStore (the write *)
(* path and the notifications of the Secret's changes), SpecInformer (the  *)
(* same with the informer's resync and the other Secrets it watches) and   *)
(* SpecWatchdog. Each moves the variables of its own component and leaves  *)
(* the others at their initial value.                                      *)
(***************************************************************************)
EXTENDS Integers, Sequences, FiniteSets, TLC

VARIABLES
    proxyCfg,   \* what newKubernetesProxy was built with: the kind of hook and the target URL
    conn,       \* per inbound connection: the request being served by ReverseProxy.ServeHTTP
    storeModel, \* which SecretStore is in use: "A" (store.go) or "B" (cached, watched)
    Data,       \* SecretStore.Data: the in-memory map (model B)
    AuthKey,    \* SecretStore.AuthKey (model B)
    mutex,      \* SecretStore.mutex: its holder, or Free (model B)
    ext,        \* the Kubernetes Secret as the API server holds it
    events,     \* informer notifications not yet handed to the event handlers
    writer,     \* per caller of WriteState: where it is in the call, and its locals
    hist,       \* history of the store: what the calls returned (for the properties)
    ctxDone,    \* cmd.Context() is cancelled
    tick,       \* ticker.C holds a tick (a channel of capacity one)
    wd,         \* the watchdog goroutine: where it is in its loop
    errChan,    \* the channel startTailscaleWatchdog returns (capacity one)
    pollLog,    \* history of the watchdog: the result of every status query, in order
    srv,        \* RunServer: where it is, what it acquired, deferred and returned
    serve,      \* the goroutine running http.Serve(ln, proxy)
    serverError \* the channel the serve goroutine sends to (capacity one)

proxyVars == <<proxyCfg, conn>>
storeVars == <<storeModel, Data, AuthKey, mutex, ext, events, writer, hist>>
wdVars    == <<ctxDone, tick, wd, errChan, pollLog>>
srvVars   == <<srv, serve, serverError>>
vars      == <<proxyCfg, conn, storeModel, Data, AuthKey, mutex, ext, events, writer, hist,
               ctxDone, tick, wd, errChan, pollLog, srv, serve, serverError>>

Absent == "<absent>"    \* a header, map key or field that is not there

(***************************************************************************)
(*                              THE PROXY                                  *)
(***************************************************************************)

Conns == {"c1", "c2"}

HeaderNames == {"Impersonate-User", "Impersonate-Group", "Authorization",
                "Connection", "X-Forwarded-For"}

NoHeaders == [n \in HeaderNames |-> Absent]

\* The token read from TOKEN_FILE, and the login names the tailnet knows.
ServiceToken == "svc-token"
Logins == {"alice", "bob"}

\* Remote addresses "ip:port" of the callers.
RemoteAddrs == { [ip |-> "100.64.0.1", port |-> "41000"],
                 [ip |-> "100.64.0.2", port |-> "41001"] }

\* API_URL after url.Parse: no base path (the default), or a base path with
\* or without the trailing slash and a query. Paths are sequences of characters.
Targets == { [host |-> "https://kubernetes.default.svc", path |-> << >>, query |-> ""],
             [host |-> "https://rancher.example", path |-> <<"/", "k">>, query |-> ""],
             [host |-> "https://rancher.example", path |-> <<"/", "k", "/">>, query |-> "t=1"] }

Req(addr, path, query, hdr) ==
    [addr |-> addr, path |-> path, query |-> query, hdr |-> hdr]

\* The inbound requests: callers that spoof the impersonation headers and send
\* their own credentials, callers that name headers in Connection, and plain
\* requests over several URLs and with a forwarding header of their own.
SpoofRequests ==
    { Req(CHOOSE a \in RemoteAddrs : a.ip = "100.64.0.1", <<"/", "a">>, "",
          [NoHeaders EXCEPT !["Impersonate-User"] = iu,
                            !["Impersonate-Group"] = ig,
                            !["Authorization"] = au]) :
        iu \in {Absent, "alice"}, ig \in {Absent, "system:masters"},
        au \in {Absent, "Basic Y2FsbGVy"} }

ConnectionRequests ==
    { Req(CHOOSE a \in RemoteAddrs : a.ip = "100.64.0.1", <<"/", "a">>, "",
          [NoHeaders EXCEPT !["Connection"] = co,
                            !["Impersonate-User"] = iu,
                            !["Authorization"] = au]) :
        co \in {"Impersonate-User", "Authorization", "Impersonate-User, Authorization"},
        iu \in {Absent, "alice"}, au \in {Absent, "Basic Y2FsbGVy"} }

PlainRequests ==
    { Req(a, p, q, [NoHeaders EXCEPT !["X-Forwarded-For"] = xff]) :
        a \in RemoteAddrs, p \in {<<"/">>, <<"/", "a">>}, q \in {"", "w=1"},
        xff \in {Absent, "6.6.6.6"} }

\* A caller whose node has a profile without a login name.
UnnamedAddr == [ip |-> "100.64.0.3", port |-> "41002"]
UnnamedRequests == { Req(UnnamedAddr, <<"/", "a">>, "", NoHeaders) }

Requests == SpoofRequests \cup ConnectionRequests \cup PlainRequests \cup UnnamedRequests

NoReq == Req([ip |-> "", port |-> ""], << >>, "", NoHeaders)
NoOut == [host |-> "", path |-> << >>, query |-> "", hdr |-> NoHeaders]
NoWho == [err |-> TRUE, LoginName |-> ""]

\* What lc.WhoIs can answer: an error (no session, or the call failed), or a profile.
WhoIsResults == {NoWho} \cup { [err |-> FALSE, LoginName |-> l] : l \in Logins }

\* The tailnet: the user each address belongs to.
Owner(ip) ==
    CASE ip = "100.64.0.1" -> "bob"
      [] ip = "100.64.0.2" -> "alice"
      [] OTHER -> ""

\* lc.WhoIs(ctx, remoteAddr): the profile of the owner of the address, or an error.
WhoIs(addr) == {NoWho} \cup {[err |-> FALSE, LoginName |-> Owner(addr.ip)]}

\* The address the hook asks about: r.In.RemoteAddr (Rewrite), r.RemoteAddr (Director).
WhoIsArg(req) == req.addr

----------------------------------------------------------------------------
\* http.Header

HeaderDel(h, n) == [h EXCEPT ![n] = Absent]

HeaderSet(h, n, v) == [h EXCEPT ![n] = v]

\* The header names a Connection value lists (split at commas, trimmed).
ConnectionTokens(v) ==
    CASE v = "Impersonate-User" -> {"Impersonate-User"}
      [] v = "Authorization" -> {"Authorization"}
      [] v = "Impersonate-User, Authorization" -> {"Impersonate-User", "Authorization"}
      [] OTHER -> {}

\* httputil.removeHopByHopHeaders: the headers Connection names, then Connection itself.
removeHopByHopHeaders(h) ==
    [n \in HeaderNames |->
        IF n \in ConnectionTokens(h["Connection"]) \/ n = "Connection"
        THEN Absent ELSE h[n]]

----------------------------------------------------------------------------
\* The URL of the outbound request

HasSuffixSlash(a) == Len(a) > 0 /\ a[Len(a)] = "/"
HasPrefixSlash(b) == Len(b) > 0 /\ b[1] = "/"

singleJoiningSlash(a, b) ==
    IF HasSuffixSlash(a) /\ HasPrefixSlash(b) THEN a \o Tail(b)
    ELSE IF ~HasSuffixSlash(a) /\ ~HasPrefixSlash(b) THEN a \o <<"/">> \o b
    ELSE a \o b

JoinQuery(targetQuery, rawQuery) ==
    IF targetQuery = "" \/ rawQuery = "" THEN targetQuery \o rawQuery
    ELSE targetQuery \o "&" \o rawQuery

\* httputil.rewriteRequestURL, which r.SetURL(target) and the director of
\* NewSingleHostReverseProxy both run.
rewriteRequestURL(out, target) ==
    [out EXCEPT !.host = target.host,
                !.path = singleJoiningSlash(target.path, out.path),
                !.query = JoinQuery(target.query, out.query)]

----------------------------------------------------------------------------
\* The hook of newKubernetesProxy, cut at the call of lc.WhoIs

\* r.Out.Header.Del("Impersonate-User"); r.Out.Header.Del("Impersonate-Group")
MutStripKeepsGroup(h) == HeaderDel(h, "Impersonate-User")
StripImpersonation(h) ==
    HeaderDel(HeaderDel(h, "Impersonate-User"), "Impersonate-Group")

\* if err == nil { Set("Impersonate-User", LoginName); Set("Authorization", "Bearer "+token) }
MutInjectAlways(h, who) ==
    HeaderSet(HeaderSet(h, "Impersonate-User", who.LoginName),
              "Authorization", "Bearer " \o ServiceToken)
MutInjectNoCredential(h, who) ==
    IF ~who.err THEN HeaderSet(h, "Impersonate-User", who.LoginName) ELSE h
InjectIdentity(h, who) ==
    IF ~who.err
    THEN HeaderSet(HeaderSet(h, "Impersonate-User", who.LoginName),
                   "Authorization", "Bearer " \o ServiceToken)
    ELSE h

\* ProxyRequest.SetXForwarded: the client IP after what Out already carries.
MutSetXForwardedSkipped(h, addr) == h
SetXForwarded(h, addr) ==
    HeaderSet(h, "X-Forwarded-For",
              IF h["X-Forwarded-For"] = Absent THEN addr.ip
              ELSE h["X-Forwarded-For"] \o ", " \o addr.ip)

\* ServeHTTP with Rewrite set: clone, drop the hop-by-hop and the forwarding
\* headers, then Rewrite up to its call of WhoIs.
RewriteBefore(in, target) ==
    LET cloned == [host |-> "", path |-> in.path, query |-> in.query, hdr |-> in.hdr]
        clean  == HeaderDel(removeHopByHopHeaders(cloned.hdr), "X-Forwarded-For")
        url    == rewriteRequestURL(cloned, target)
    IN  [url EXCEPT !.hdr = StripImpersonation(clean)]

\* Rewrite from the return of WhoIs on.
RewriteAfter(out, in, who) ==
    [out EXCEPT !.hdr = SetXForwarded(InjectIdentity(out.hdr, who), in.addr)]

\* ServeHTTP with Director set: clone, then the Director up to its call of WhoIs.
DirectorBefore(in, target) ==
    LET cloned == [host |-> "", path |-> in.path, query |-> in.query, hdr |-> in.hdr]
        url    == rewriteRequestURL(cloned, target)
    IN  [url EXCEPT !.hdr = StripImpersonation(cloned.hdr)]

\* The Director from the return of WhoIs on; ServeHTTP then drops the
\* hop-by-hop headers and appends the client IP to X-Forwarded-For.
DirectorAfter(out, in, who) ==
    [out EXCEPT !.hdr = SetXForwarded(removeHopByHopHeaders(InjectIdentity(out.hdr, who)),
                                      in.addr)]

ProxyInit ==
    /\ proxyCfg \in { [hook |-> k, target |-> t] : k \in {"Rewrite", "Director"}, t \in Targets }
    /\ conn = [c \in Conns |-> [pc |-> "idle", in |-> NoReq, out |-> NoOut, who |-> NoWho, asked |-> << >>]]

\* A request arrives on connection c; the handler runs up to lc.WhoIs(ctx, RemoteAddr).
ServeHTTP(c) ==
    /\ conn[c].pc = "idle"
    /\ \E req \in Requests :
         conn' = [conn EXCEPT ![c] =
                    [pc |-> "whois", in |-> req, who |-> NoWho,
                     asked |-> <<WhoIsArg(req)>>,
                     out |-> IF proxyCfg.hook = "Rewrite"
                             THEN RewriteBefore(req, proxyCfg.target)
                             ELSE DirectorBefore(req, proxyCfg.target)]]
    /\ UNCHANGED <<proxyCfg, storeVars, wdVars, srvVars>>

\* WhoIs answers; the handler finishes the outbound request and hands it to the transport.
WhoIsReturns(c) ==
    /\ conn[c].pc = "whois"
    /\ \E who \in WhoIs(Head(conn[c].asked)) :
         conn' = [conn EXCEPT ![c].pc = "forwarded",
                              ![c].who = who,
                              ![c].out = IF proxyCfg.hook = "Rewrite"
                                         THEN RewriteAfter(conn[c].out, conn[c].in, who)
                                         ELSE DirectorAfter(conn[c].out, conn[c].in, who)]
    /\ UNCHANGED <<proxyCfg, storeVars, wdVars, srvVars>>

\* The upstream answered and the response went back: nothing of the request is kept.
Respond(c) ==
    /\ conn[c].pc = "forwarded"
    /\ conn' = [conn EXCEPT ![c] = [pc |-> "idle", in |-> NoReq, out |-> NoOut, who |-> NoWho, asked |-> << >>]]
    /\ UNCHANGED <<proxyCfg, storeVars, wdVars, srvVars>>

(***************************************************************************)
(*                             THE WATCHDOG                                *)
(***************************************************************************)

MaxPolls == 4       \* status queries in a run of the model

\* errChan := make(chan error, 1)
ErrChanCap == 1

\* What lc.Status(ctx) can answer: a status, or an error (the timeout of
\* statusTimeout or a transport error; ctx cancelled).
StatusRunning  == [err |-> "nil", BackendState |-> "Running"]
StatusStopped  == [err |-> "nil", BackendState |-> "Stopped"]
StatusTimeout  == [err |-> "context deadline exceeded", BackendState |-> ""]
StatusCanceled == [err |-> "context canceled", BackendState |-> ""]

\* A query issued on a cancelled context fails; one in flight when the context
\* is cancelled fails with it or has its answer already; otherwise the node decides.
StatusResults(issuedCancelled, cancelledNow) ==
    IF issuedCancelled THEN {StatusCanceled}
    ELSE {StatusRunning, StatusStopped, StatusTimeout}
         \cup (IF cancelledNow THEN {StatusCanceled} ELSE {})

\* checkTailscaleStatus: the error it returns for an answer of lc.Status, or "nil".
checkTailscaleStatus(status) ==
    IF status.err # "nil" THEN "failed to get backend status: " \o status.err
    ELSE IF status.BackendState # "Running" THEN "backend is in state " \o status.BackendState
    ELSE "nil"

\* Where the loop goes after the check: to the send on errChan, or around.
AfterCheck(err) == IF err # "nil" THEN "send" ELSE "select"

\* Where the goroutine goes after `errChan <- ...`: the return that follows it.
MutAfterSendLoops == "select"
AfterSend == "stopped"

\* An event of RunServer's select happens: ctx.Done() is closed, or a value is
\* sent on tsError or serverError. A goroutine that is already waiting in the
\* select is woken by the first of them and takes that case; the order of the
\* events is kept for the properties.
Fire(s, case) ==
    [s EXCEPT !.fired = IF case \in {s.fired[i] : i \in 1..Len(s.fired)} THEN @
                        ELSE Append(@, case),
              !.woke = IF s.pc = "parked" /\ s.woke = "" THEN case ELSE @]

WatchdogInit ==
    /\ ctxDone = FALSE
    /\ tick = FALSE
    /\ wd = [pc |-> "select", issuedCancelled |-> FALSE, err |-> "nil", exit |-> "",
             polls |-> 0, pollsAfterCancel |-> 0, signals |-> 0]
    /\ errChan = << >>
    /\ pollLog = << >>

\* watchdogInterval has passed: the ticker puts a tick in its channel (and
\* drops it when the channel still holds one). Stopped by the deferred ticker.Stop().
TickerFires ==
    /\ wd.pc \notin {"none", "stopped"}
    /\ ~tick
    /\ wd.polls < MaxPolls
    /\ tick' = TRUE
    /\ UNCHANGED <<ctxDone, wd, errChan, pollLog, proxyVars, storeVars, srvVars>>

\* SIGINT or SIGTERM: signal.NotifyContext cancels the context RunServer was given.
Cancel ==
    /\ ~ctxDone
    /\ ctxDone' = TRUE
    /\ srv' = Fire(srv, "done")
    /\ UNCHANGED <<tick, wd, errChan, pollLog, proxyVars, storeVars, serve, serverError>>

\* select { case <-ctx.Done(): return
WatchdogSelectDone ==
    /\ wd.pc = "select"
    /\ ctxDone
    /\ wd' = [wd EXCEPT !.pc = "stopped", !.exit = "cancelled"]
    /\ UNCHANGED <<ctxDone, tick, errChan, pollLog, proxyVars, storeVars, srvVars>>

\* case <-ticker.C: checkTailscaleStatus(ctx, lc) issues lc.Status. With both
\* cases ready, select takes either.
WatchdogSelectTick ==
    /\ wd.pc = "select"
    /\ tick
    /\ tick' = FALSE
    /\ wd' = [wd EXCEPT !.pc = "status",
                        !.issuedCancelled = ctxDone,
                        !.polls = @ + 1,
                        !.pollsAfterCancel = IF ctxDone THEN @ + 1 ELSE @]
    /\ UNCHANGED <<ctxDone, errChan, pollLog, proxyVars, storeVars, srvVars>>

\* lc.Status answers and checkTailscaleStatus returns.
StatusReturns ==
    /\ wd.pc = "status"
    /\ \E status \in StatusResults(wd.issuedCancelled, ctxDone) :
         /\ pollLog' = Append(pollLog, status)
         /\ wd' = [wd EXCEPT !.pc = AfterCheck(checkTailscaleStatus(status)),
                             !.err = checkTailscaleStatus(status)]
    /\ UNCHANGED <<ctxDone, tick, errChan, proxyVars, storeVars, srvVars>>

\* errChan <- fmt.Errorf("tailscale watchdog check failed: %w", err); return
WatchdogSend ==
    /\ wd.pc = "send"
    /\ Len(errChan) < ErrChanCap
    /\ errChan' = Append(errChan, "tailscale watchdog check failed: " \o wd.err)
    /\ wd' = [wd EXCEPT !.pc = AfterSend, !.exit = "failed", !.signals = @ + 1]
    /\ srv' = Fire(srv, "tsError")
    /\ UNCHANGED <<ctxDone, tick, pollLog, proxyVars, storeVars, serve, serverError>>

(***************************************************************************)
(*                        THE SERVER SUPERVISOR                            *)
(***************************************************************************)

\* The configuration of a run: TOKEN_FILE, API_URL and CLUSTER_CA_FILE (their
\* defaults, and other values), and the files that exist with what they hold.
TokenFiles == {"/var/run/secrets/kubernetes.io/serviceaccount/token", "/etc/absent/token"}
ApiURLs == {"https://kubernetes.default.svc", "://kubernetes.default.svc", "10.96.0.1:443"}
CaFiles == {"", "/var/run/secrets/kubernetes.io/serviceaccount/ca.crt", "/ca/absent.crt", "/ca/garbage.crt"}
Configs == [tokenFile : TokenFiles, apiURL : ApiURLs, caFile : CaFiles]
DefaultConfig ==
    [tokenFile |-> "/var/run/secrets/kubernetes.io/serviceaccount/token",
     apiURL |-> "https://kubernetes.default.svc",
     caFile |-> "/var/run/secrets/kubernetes.io/serviceaccount/ca.crt"]

\* os.ReadFile
ReadFile(path) ==
    CASE path = "/var/run/secrets/kubernetes.io/serviceaccount/token" -> [err |-> "nil", data |-> ServiceToken]
      [] path = "/var/run/secrets/kubernetes.io/serviceaccount/ca.crt"             -> [err |-> "nil", data |-> "-----BEGIN CERTIFICATE-----"]
      [] path = "/ca/garbage.crt"        -> [err |-> "nil", data |-> "garbage"]
      [] OTHER                           -> [err |-> "no such file or directory", data |-> ""]

\* url.Parse: a URL without a scheme before "://" and a first path segment
\* with a colon are errors.
UrlParse(rawURL) ==
    CASE rawURL = "https://kubernetes.default.svc" ->
             [err |-> "nil", url |-> CHOOSE t \in Targets : t.path = << >>]
      [] rawURL = "://kubernetes.default.svc" ->
             [err |-> "missing protocol scheme", url |-> NoOut]
      [] OTHER ->
             [err |-> "first path segment in URL cannot contain colon", url |-> NoOut]

\* x509.CertPool.AppendCertsFromPEM: whether a certificate was found.
AppendCertsFromPEM(data) == data = "-----BEGIN CERTIFICATE-----"

\* getCaPool: the error it returns for CLUSTER_CA_FILE, or "nil".
MutGetCaPoolKeepsSystemPool(filePath) == "nil"
getCaPool(filePath) ==
    IF filePath = "" THEN "nil"
    ELSE IF ReadFile(filePath).err # "nil" THEN "failed to read CA file"
    ELSE IF ~AppendCertsFromPEM(ReadFile(filePath).data)
         THEN "failed to parse certificates from CA file"
    ELSE "nil"

\* The deferred calls run at return, last registered first.
MutRunDeferredInOrder(defers) == defers
RunDeferred(defers) == [i \in 1..Len(defers) |-> defers[Len(defers) + 1 - i]]

\* return result: the result is fixed, then the deferred calls run.
Return(s, result) ==
    [s EXCEPT !.result = result,
              !.returns = @ + 1,
              !.toRun = RunDeferred(s.defers),
              !.pc = IF s.defers = << >> THEN "returned" ELSE "deferred"]

\* What RunServer returns for the case its select took.
MutSelectResultAlwaysNil(case, err) == "nil"
SelectResult(case, err) ==
    CASE case = "done"        -> "nil"
      [] case = "tsError"     -> "connection error: " \o err
      [] case = "serverError" -> "HTTP server error: " \o err

\* The cases of the select that can proceed.
ReadyCases ==
    (IF ctxDone THEN {"done"} ELSE {})
    \cup (IF errChan # << >> THEN {"tsError"} ELSE {})
    \cup (IF serverError # << >> THEN {"serverError"} ELSE {})

\* The value the case receives.
Received(case) ==
    CASE case = "tsError"     -> Head(errChan)
      [] case = "serverError" -> Head(serverError)
      [] OTHER                -> ""

NewSupervisor(pc, cfg) ==
    [pc |-> pc, cfg |-> cfg, result |-> "", returns |-> 0,
     defers |-> << >>, toRun |-> << >>, released |-> << >>,
     ln |-> "none", lnFailed |-> FALSE, node |-> "new",
     fired |-> << >>, woke |-> "", ready |-> {}, chose |-> "",
     up |-> "", serveSends |-> 0]

\* RunServer is not running (the components are observed on their own).
SupervisorIdle ==
    /\ srv = NewSupervisor("idle", DefaultConfig)
    /\ serve = "none"
    /\ serverError = << >>

\* RunServer is called: nothing is acquired, the watchdog is not started.
SupervisorInit ==
    /\ srv \in { NewSupervisor("token", cfg) : cfg \in Configs }
    /\ serve = "none"
    /\ serverError = << >>

WatchdogNotStarted ==
    /\ ctxDone = FALSE
    /\ tick = FALSE
    /\ wd = [pc |-> "none", issuedCancelled |-> FALSE, err |-> "nil", exit |-> "",
             polls |-> 0, pollsAfterCancel |-> 0, signals |-> 0]
    /\ errChan = << >>
    /\ pollLog = << >>

\* serviceAccountToken, err := os.ReadFile(tokenFile)
ReadTokenFile ==
    /\ srv.pc = "token"
    /\ srv' = IF ReadFile(srv.cfg.tokenFile).err # "nil"
              THEN Return(srv, "failed to read service account token")
              ELSE [srv EXCEPT !.pc = "store"]
    /\ UNCHANGED <<serve, serverError, proxyVars, storeVars, wdVars>>

\* SECRET_NAME is unset, or NewSecretStore(secretName) succeeds or fails; then
\* defer s.Close().
ConfigureStore ==
    /\ srv.pc = "store"
    /\ \E outcome \in {"unset", "ok", "err"} :
         srv' = IF outcome = "err"
                THEN Return(srv, "failed to initialize secret store")
                ELSE [srv EXCEPT !.pc = "listen", !.defers = Append(@, "s.Close")]
    /\ UNCHANGED <<serve, serverError, proxyVars, storeVars, wdVars>>

\* ln, err := s.Listen("tcp", ":80"); defer ln.Close()
Listen ==
    /\ srv.pc = "listen"
    /\ \E ok \in BOOLEAN :
         srv' = IF ~ok
                THEN Return(srv, "failed to create listener")
                ELSE [srv EXCEPT !.pc = "client", !.ln = "open",
                                 !.defers = Append(@, "ln.Close")]
    /\ UNCHANGED <<serve, serverError, proxyVars, storeVars, wdVars>>

\* lc, err := s.LocalClient()
LocalClient ==
    /\ srv.pc = "client"
    /\ \E ok \in BOOLEAN :
         srv' = IF ~ok
                THEN Return(srv, "failed to get local Tailscale client")
                ELSE [srv EXCEPT !.pc = "url"]
    /\ UNCHANGED <<serve, serverError, proxyVars, storeVars, wdVars>>

\* kubernetesURL, err := url.Parse(apiURL)
ParseURL ==
    /\ srv.pc = "url"
    /\ srv' = IF UrlParse(srv.cfg.apiURL).err # "nil"
              THEN Return(srv, "failed to parse kubernetes API URL")
              ELSE [srv EXCEPT !.pc = "proxy"]
    /\ UNCHANGED <<serve, serverError, proxyVars, storeVars, wdVars>>

\* proxy, err := newKubernetesProxy(kubernetesURL, lc, token), which starts
\* with getCaPool().
NewProxy ==
    /\ srv.pc = "proxy"
    /\ IF getCaPool(srv.cfg.caFile) # "nil"
       THEN /\ srv' = Return(srv, "failed to initialize kubernetes proxy")
            /\ UNCHANGED proxyCfg
       ELSE /\ srv' = [srv EXCEPT !.pc = "up"]
            /\ \E hook \in {"Rewrite", "Director"} :
                 proxyCfg' = [hook |-> hook, target |-> UrlParse(srv.cfg.apiURL).url]
    /\ UNCHANGED <<conn, serve, serverError, storeVars, wdVars>>

\* if _, err := s.Up(cmd.Context()); err != nil { return ... }
MutUpErrorIgnored(s, ok) ==
    [s EXCEPT !.pc = "serving", !.up = IF ok THEN "ok" ELSE "failed"]
AfterUp(s, ok) ==
    IF ~ok
    THEN Return([s EXCEPT !.up = "failed"], "failed to connect to tailnet")
    ELSE [s EXCEPT !.pc = "serving", !.up = "ok"]

\* s.Up(cmd.Context()): fails when the node cannot connect, and when the
\* context is cancelled before the node is up.
Up ==
    /\ srv.pc = "up"
    /\ \E ok \in (IF ctxDone THEN {FALSE} ELSE BOOLEAN) : srv' = AfterUp(srv, ok)
    /\ UNCHANGED <<serve, serverError, proxyVars, storeVars, wdVars>>

\* tsError := startTailscaleWatchdog(ctx, lc); serverError := make(chan error, 1);
\* go func() { serverError <- http.Serve(ln, proxy) }()
StartServing ==
    /\ srv.pc = "serving"
    /\ srv' = [srv EXCEPT !.pc = "select"]
    /\ wd' = [wd EXCEPT !.pc = "select"]
    /\ serve' = "accepting"
    /\ UNCHANGED <<ctxDone, tick, errChan, pollLog, serverError, proxyVars, storeVars>>

\* RunServer reaches its select. When cases can proceed it takes one of them,
\* any of them; when none can, the goroutine waits.
SupervisorSelect ==
    /\ srv.pc = "select"
    /\ IF ReadyCases = {}
       THEN /\ srv' = [srv EXCEPT !.pc = "parked"]
            /\ UNCHANGED <<errChan, serverError>>
       ELSE \E case \in ReadyCases :
              /\ srv' = Return([srv EXCEPT !.chose = case, !.ready = ReadyCases],
                               SelectResult(case, Received(case)))
              /\ errChan' = IF case = "tsError" THEN Tail(errChan) ELSE errChan
              /\ serverError' = IF case = "serverError" THEN Tail(serverError)
                                ELSE serverError
    /\ UNCHANGED <<ctxDone, tick, wd, pollLog, serve, proxyVars, storeVars>>

\* The waiting select is resumed with the case of the event that woke it.
SupervisorWakes ==
    /\ srv.pc = "parked"
    /\ srv.woke # ""
    /\ srv' = Return([srv EXCEPT !.chose = srv.woke, !.ready = ReadyCases],
                     SelectResult(srv.woke, Received(srv.woke)))
    /\ errChan' = IF srv.woke = "tsError" THEN Tail(errChan) ELSE errChan
    /\ serverError' = IF srv.woke = "serverError" THEN Tail(serverError) ELSE serverError
    /\ UNCHANGED <<ctxDone, tick, wd, pollLog, serve, proxyVars, storeVars>>

\* The next deferred call runs: ln.Close() or s.Close().
RunDeferredCall ==
    /\ srv.pc = "deferred"
    /\ srv' = [srv EXCEPT !.toRun = Tail(@),
                          !.released = Append(@, Head(srv.toRun)),
                          !.ln = IF Head(srv.toRun) = "ln.Close" THEN "closed" ELSE @,
                          !.node = IF Head(srv.toRun) = "s.Close" THEN "closed" ELSE @,
                          !.pc = IF Tail(srv.toRun) = << >> THEN "returned" ELSE @]
    /\ UNCHANGED <<serve, serverError, proxyVars, storeVars, wdVars>>

\* serverError := make(chan error, 1)
MutServerErrorUnbuffered == 1 - 1
ServerErrorCap == 1

\* http.Serve returns, because Accept failed on the open listener or because
\* the listener was closed.
ServeReturns ==
    /\ serve = "accepting"
    /\ serve' = "send"
    /\ srv' = [srv EXCEPT !.lnFailed = (srv.ln = "open")]
    /\ UNCHANGED <<serverError, proxyVars, storeVars, wdVars>>

\* serverError <- (the error of http.Serve): the goroutine sends and ends.
ServeSends ==
    /\ serve = "send"
    /\ Len(serverError) < ServerErrorCap
    /\ serve' = "returned"
    /\ serverError' = Append(serverError,
                             IF srv.lnFailed THEN "accept failed"
                             ELSE "use of closed network connection")
    /\ srv' = [Fire(srv, "serverError") EXCEPT !.serveSends = @ + 1]
    /\ UNCHANGED <<proxyVars, storeVars, wdVars>>

\* The requests that arrive while the supervisor is observed.
ServedRequests ==
    { r \in PlainRequests : r.path = <<"/", "a">> /\ r.query = ""
                            /\ r.hdr["X-Forwarded-For"] = Absent }

\* The connections the listener is seen to accept.
ServedConns == {"c1"}

\* http.Serve accepts a connection from the open listener and starts its handler.
Accept(c) ==
    /\ serve = "accepting"
    /\ srv.ln = "open"
    /\ ServeHTTP(c)
    /\ conn'[c].in \in ServedRequests

\* Handlers run as long as the node is up.
HandlerWhoIs(c) == srv.node # "closed" /\ WhoIsReturns(c)
HandlerResponds(c) == srv.node # "closed" /\ Respond(c)

\* s.Close() has shut the node down under a handler: its connections are
\* gone, the request cannot complete.
Abort(c) ==
    /\ srv.node = "closed"
    /\ conn[c].pc \in {"whois", "forwarded"}
    /\ conn' = [conn EXCEPT ![c].pc = "aborted"]
    /\ UNCHANGED <<proxyCfg, storeVars, wdVars, srvVars>>

(***************************************************************************)
(*                           THE SECRET STORE                              *)
(***************************************************************************)

MaxEvents   == 2    \* informer notifications waiting for the handlers
MaxCalls    == 2    \* WriteState calls in a run of the model
MaxExtEdits == 1    \* changes of the Secret made by other processes
MaxReads    == 2    \* ReadState calls in a run of the model

Writers == {"w1", "w2"}
Keys == {"k1", "k2"}            \* ipn.StateKey
Values == {"v1", "v2"}          \* the bytes written
NilBytes == "<nil>"             \* a nil []byte, the zero value a map lookup gives
Free == "free"
SecretName == "tailscale-kube-proxy-secret"
OtherSecret == "other-secret"   \* another Secret of the namespace the informer watches

\* map[string][]byte: a function from the keys present to their bytes.
EmptyMap == [k \in {} |-> NilBytes]
MapGet(m, k) == IF k \in DOMAIN m THEN m[k] ELSE NilBytes
MapSet(m, k, v) == [x \in (DOMAIN m) \cup {k} |-> IF x = k THEN v ELSE m[x]]

\* encoding/base64 and encoding/json on map[string][]byte: an object whose
\* members are the base64 text of the bytes, or null for a nil slice.
EncodeToString(v) == CASE v = "v1" -> "djE=" [] v = "v2" -> "djI=" [] OTHER -> ""
DecodeString(t) == CASE t = "djE=" -> "v1" [] t = "djI=" -> "v2" [] OTHER -> ""

Marshal(m) ==
    [k \in DOMAIN m |-> IF m[k] = NilBytes THEN "null" ELSE EncodeToString(m[k])]

\* json.Unmarshal(bytes, &m) on a map that exists: the members of the object
\* are stored into m and the entries m already has are kept; no bytes at all
\* are not JSON, an error that leaves m alone.
Unmarshal(field, m) ==
    IF ~field.present THEN [err |-> TRUE, m |-> m]
    ELSE [err |-> FALSE,
          m |-> [k \in (DOMAIN m) \cup (DOMAIN field.doc) |->
                   IF k \in DOMAIN field.doc
                   THEN (IF field.doc[k] = "null" THEN NilBytes
                         ELSE DecodeString(field.doc[k]))
                   ELSE m[k]]]

NoState == [present |-> FALSE, doc |-> EmptyMap]
StateOf(m) == [present |-> TRUE, doc |-> Marshal(m)]

\* What the informer hands to AddFunc and UpdateFunc: the Secret as it was then.
Snapshot(name, secret) == [name |-> name, authKey |-> secret.authKey, state |-> secret.state]

\* informerHandler (under the mutex): AuthKey and Data from the Secret.
informerHandler(secret, data) ==
    [AuthKey |-> secret.authKey, Data |-> Unmarshal(secret.state, data).m]

\* SecretStore.ReadState of the cached store: from the map, without the mutex.
ReadStateB(data, k) ==
    IF k \in DOMAIN data THEN [data |-> data[k], err |-> "nil"]
    ELSE [data |-> NilBytes, err |-> "ErrStateNotExist"]

\* SecretStore.ReadState of the synchronous store: the field of the fetched Secret.
ReadStateA(secret, k) == [data |-> MapGet(secret.fields, k), err |-> "nil"]

ReadState(k) == IF storeModel = "B" THEN ReadStateB(Data, k) ELSE ReadStateA(ext, k)

\* The value the Secret holds for key k.
ExtValue(k) ==
    IF storeModel = "B" THEN MapGet(Unmarshal(ext.state, EmptyMap).m, k)
    ELSE MapGet(ext.fields, k)

\* WriteState of the cached store: what it leaves in the map for the key when
\* updateSecret fails (s.Data[string(id)] = oldValue).
Rollback(data, k, oldValue) == MapSet(data, k, oldValue)

\* What is kept of a ReadState call: the key, what it returned, the external
\* calls it made, and the writer that had a value staged for the key then.
NoRead == [key |-> "", result |-> [data |-> NilBytes, err |-> "nil"], calls |-> 0,
           by |-> Free, byCall |-> 0]

IdleWriter(calls, key, val, res) ==
    [pc |-> "idle", calls |-> calls, key |-> key, val |-> val, res |-> res,
     oldValue |-> NilBytes, pre |-> [data |-> NilBytes, err |-> "nil"],
     snap |-> EmptyMap, fetched |-> EmptyMap, stale |-> FALSE,
     persists |-> 0, fetches |-> 0]

InFlight(w) == writer[w].pc # "idle"

\* The writer is between its read half and its write half.
InCycle(w) == writer[w].pc \in {"persist", "update"}

StoreInit ==
    /\ storeModel \in {"A", "B"}
    /\ ext \in { [authKey |-> "tskey-1",
                  state |-> IF storeModel = "B" THEN st ELSE NoState,
                  fields |-> IF storeModel = "A" THEN st.doc ELSE EmptyMap] :
                 st \in {NoState, StateOf([k \in {"k1"} |-> "v1"])} }
    /\ Data = EmptyMap
    /\ AuthKey = ""
    /\ mutex = Free
    \* factory.WaitForCacheSync has returned: the informer holds the Secret, and
    \* its notification is on its way to AddFunc.
    /\ events = IF storeModel = "B" THEN <<Snapshot(SecretName, ext)>> ELSE << >>
    /\ writer = [w \in Writers |-> IdleWriter(0, "k1", "v1", "none")]
    /\ hist = [extEdits |-> 0, calls |-> 0, overlapped |-> FALSE, keysWritten |-> {},
               skipped |-> FALSE, built |-> FALSE, synced |-> FALSE,
               syncedAtReturn |-> FALSE, bootKey |-> "",
               reads |-> 0, lastRead |-> NoRead,
               legit |-> [k \in Keys |-> {}],
               lastOk |-> [k \in Keys |-> Absent],
               lastSucc |-> [k \in Keys |-> Absent]]

\* NewSecretStore returns once factory.WaitForCacheSync has: the informer's
\* cache holds the Secret, whether or not AddFunc has run for it yet. RunServer
\* then copies the bootstrap credential (s.AuthKey = store.AuthKey).
NewSecretStoreReturns ==
    /\ ~hist.built
    /\ hist' = [hist EXCEPT
           !.built = TRUE,
           !.syncedAtReturn = hist.synced,
           !.bootKey = IF storeModel = "B" THEN AuthKey ELSE ext.authKey]
    /\ UNCHANGED <<storeModel, Data, AuthKey, mutex, ext, events, writer, proxyVars, wdVars, srvVars>>

\* The external calls one ReadState makes: none from the map of the cached
\* store, one getSecret in the synchronous store.
MutReadStateFetches == 1 + 0
ReadStateCalls == IF storeModel = "B" THEN 0 ELSE 1

\* A caller (the tsnet node) calls ReadState(k). The cached store answers from
\* the map without taking the mutex, so a WriteState may be holding it; the
\* synchronous store answers from the Secret it fetches, or with the error of
\* the fetch.
CallReadState ==
    /\ hist.built
    /\ hist.reads < MaxReads
    /\ \E k \in Keys, fetched \in BOOLEAN :
         /\ storeModel = "B" => fetched
         /\ hist' = [hist EXCEPT
                !.reads = @ + 1,
                !.lastRead =
                    [key |-> k,
                     result |-> IF ~fetched THEN [data |-> NilBytes, err |-> "get failed"]
                                ELSE ReadState(k),
                     calls |-> ReadStateCalls,
                     by |-> IF mutex # Free /\ writer[mutex].key = k THEN mutex ELSE Free,
                     byCall |-> IF mutex # Free /\ writer[mutex].key = k
                                THEN writer[mutex].calls ELSE 0]]
    /\ UNCHANGED <<storeModel, Data, AuthKey, mutex, ext, events, writer, proxyVars, wdVars, srvVars>>

\* A caller (the tsnet node) enters WriteState(k, v).
CallWriteState(w) ==
    /\ hist.built
    /\ writer[w].pc = "idle"
    /\ hist.calls < MaxCalls
    /\ \E k \in Keys, v \in Values :
         /\ writer' = [writer EXCEPT ![w] =
                [IdleWriter(writer[w].calls + 1, k, v, "none") EXCEPT
                    !.pc = IF storeModel = "B" THEN "lock" ELSE "get"]]
         /\ hist' = [hist EXCEPT
                !.calls = @ + 1,
                !.keysWritten = @ \cup {k},
                !.overlapped = @ \/ (\E o \in Writers \ {w} : InFlight(o))]
    /\ UNCHANGED <<storeModel, Data, AuthKey, mutex, ext, events, proxyVars, wdVars, srvVars>>

\* Model B. s.mutex.Lock() in WriteState returns once the mutex is free.
MutWriterSkipsLock == TRUE
WriterMayLock == mutex = Free

\* Model B. s.mutex.Lock(); oldValue := s.Data[id]; s.Data[id] = bs
WriteStateStage(w) ==
    /\ storeModel = "B"
    /\ writer[w].pc = "lock"
    /\ WriterMayLock
    /\ mutex' = w
    /\ Data' = MapSet(Data, writer[w].key, writer[w].val)
    /\ writer' = [writer EXCEPT ![w].pc = "persist",
                                ![w].oldValue = MapGet(Data, writer[w].key),
                                ![w].pre = ReadStateB(Data, writer[w].key),
                                ![w].snap = Data']
    /\ UNCHANGED <<storeModel, AuthKey, ext, events, hist, proxyVars, wdVars, srvVars>>

\* Model B. The strategic merge patch {"data":{"state": ...}} applied to the
\* Secret: the state field is replaced, the other fields of data stay.
MutPatchReplacesData(secret, data) ==
    [secret EXCEPT !.state = StateOf(data), !.authKey = ""]
StrategicMergePatch(secret, data) == [secret EXCEPT !.state = StateOf(data)]

\* Model B. updateSecret patched data.state with the marshalled map: the Secret
\* changes and the informer is notified; WriteState returns nil.
UpdateSecretOk(w) ==
    /\ storeModel = "B"
    /\ writer[w].pc = "persist"
    /\ LET k == writer[w].key
           patched == StrategicMergePatch(ext, Data)
       IN  /\ patched # ext => Len(events) < MaxEvents
           /\ ext' = patched
           /\ events' = IF patched # ext THEN Append(events, Snapshot(SecretName, patched))
                        ELSE events
           /\ hist' = [hist EXCEPT
                  !.lastOk[k] = writer[w].val,
                  !.lastSucc[k] = writer[w].val,
                  !.legit = [x \in Keys |-> IF x \in DOMAIN Data THEN @[x] \cup {Data[x]}
                                            ELSE @[x]]]
           /\ writer' = [writer EXCEPT ![w] =
                            [IdleWriter(writer[w].calls, k, writer[w].val, "ok") EXCEPT
                                !.persists = writer[w].persists + 1]]
    /\ mutex' = Free
    /\ UNCHANGED <<storeModel, Data, AuthKey, proxyVars, wdVars, srvVars>>

\* Model B. updateSecret failed: s.Data[id] = oldValue; return err
UpdateSecretFails(w) ==
    /\ storeModel = "B"
    /\ writer[w].pc = "persist"
    /\ LET k == writer[w].key
       IN  /\ Data' = Rollback(Data, k, writer[w].oldValue)
           /\ hist' = [hist EXCEPT !.lastOk[k] = Absent]
           /\ writer' = [writer EXCEPT ![w] =
                            [IdleWriter(writer[w].calls, k, writer[w].val, "err") EXCEPT
                                !.pre = writer[w].pre,
                                !.persists = writer[w].persists + 1]]
    /\ mutex' = Free
    /\ UNCHANGED <<storeModel, AuthKey, ext, events, proxyVars, wdVars, srvVars>>

\* if secret.Name == name, in AddFunc and in UpdateFunc.
MutNameMatchesAny(secret) == TRUE
NameMatches(secret) == secret.name = SecretName

\* store.mutex.Lock() in informerHandler returns once the mutex is free.
MutHandlerSkipsLock == TRUE
HandlerMayLock == mutex = Free

\* Model B. The informer hands its oldest notification to AddFunc / UpdateFunc
\* for the store's own Secret: informerHandler runs under the mutex.
InformerDelivers ==
    /\ storeModel = "B"
    /\ events # << >>
    /\ NameMatches(Head(events))
    /\ HandlerMayLock
    /\ LET got == informerHandler(Head(events), Data)
       IN  Data' = got.Data /\ AuthKey' = got.AuthKey
    /\ events' = Tail(events)
    /\ hist' = [hist EXCEPT
           !.synced = TRUE,
           !.legit = LET seen == Unmarshal(Head(events).state, EmptyMap).m
                     IN  [x \in Keys |-> IF x \in DOMAIN seen THEN @[x] \cup {seen[x]}
                                         ELSE @[x]]]
    /\ UNCHANGED <<storeModel, mutex, ext, writer, proxyVars, wdVars, srvVars>>

\* Model B. A notification for another Secret: secret.Name == name is false.
InformerSkips ==
    /\ storeModel = "B"
    /\ events # << >>
    /\ ~NameMatches(Head(events))
    /\ events' = Tail(events)
    /\ hist' = [hist EXCEPT !.skipped = TRUE]
    /\ UNCHANGED <<storeModel, Data, AuthKey, mutex, ext, writer, proxyVars, wdVars, srvVars>>

\* Model B. Another Secret of the namespace is created or changed.
OtherSecretChanges ==
    /\ storeModel = "B"
    /\ Len(events) < MaxEvents
    /\ events' = Append(events, [name |-> OtherSecret, authKey |-> "tskey-other",
                                 state |-> StateOf([k \in {"k2"} |-> "v2"])])
    /\ UNCHANGED <<storeModel, Data, AuthKey, mutex, ext, writer, hist, proxyVars, wdVars, srvVars>>

\* Model B. The informer's resync (every 30 minutes) notifies UpdateFunc of the
\* Secret it holds.
Resync ==
    /\ storeModel = "B"
    /\ Len(events) < MaxEvents
    /\ events' = Append(events, Snapshot(SecretName, ext))
    /\ UNCHANGED <<storeModel, Data, AuthKey, mutex, ext, writer, hist, proxyVars, wdVars, srvVars>>

\* Another process changes the Secret: a new auth key, or another state.
ExternalEdit ==
    /\ hist.extEdits < MaxExtEdits
    /\ storeModel = "B" => Len(events) < MaxEvents
    /\ \E new \in { [ext EXCEPT !.authKey = "tskey-2"] }
              \cup (IF storeModel = "B"
                    THEN { [ext EXCEPT !.state = st] :
                             st \in {NoState, StateOf([k \in {"k2"} |-> "v1"])} }
                    ELSE { [ext EXCEPT !.fields = [k \in {"k2"} |-> "v1"]] }) :
         /\ new # ext
         /\ ext' = new
         /\ events' = IF storeModel = "B" THEN Append(events, Snapshot(SecretName, new))
                      ELSE events
    /\ writer' = [w \in Writers |-> [writer[w] EXCEPT !.stale = (writer[w].pc = "update") \/ @]]
    /\ hist' = [hist EXCEPT !.extEdits = @ + 1]
    /\ UNCHANGED <<storeModel, Data, AuthKey, mutex, proxyVars, wdVars, srvVars>>

\* Model A. secret, err := s.getSecret(): the Secret with its resourceVersion.
GetSecretOk(w) ==
    /\ storeModel = "A"
    /\ writer[w].pc = "get"
    /\ writer' = [writer EXCEPT ![w].pc = "update",
                                ![w].fetched = ext.fields,
                                ![w].stale = FALSE,
                                ![w].fetches = @ + 1]
    /\ UNCHANGED <<storeModel, Data, AuthKey, mutex, ext, events, hist, proxyVars, wdVars, srvVars>>

\* Model A. getSecret failed: return err
GetSecretFails(w) ==
    /\ storeModel = "A"
    /\ writer[w].pc = "get"
    /\ writer' = [writer EXCEPT ![w] =
                    [IdleWriter(writer[w].calls, writer[w].key, writer[w].val, "err") EXCEPT
                        !.fetches = writer[w].fetches + 1]]
    /\ hist' = [hist EXCEPT !.lastOk[writer[w].key] = Absent]
    /\ UNCHANGED <<storeModel, Data, AuthKey, mutex, ext, events, proxyVars, wdVars, srvVars>>

\* Model A. secret.Data[id] = bs; Update(secret) is accepted: the fetched
\* object still is the current one. Objects other callers fetched are now stale.
UpdateOk(w) ==
    /\ storeModel = "A"
    /\ writer[w].pc = "update"
    /\ ~writer[w].stale
    /\ LET k == writer[w].key
           new == [ext EXCEPT !.fields = MapSet(writer[w].fetched, k, writer[w].val)]
       IN  /\ ext' = new
           /\ writer' = [o \in Writers |->
                IF o = w
                THEN [IdleWriter(writer[w].calls, k, writer[w].val, "ok") EXCEPT
                         !.fetches = writer[w].fetches,
                         !.persists = writer[w].persists + 1]
                ELSE [writer[o] EXCEPT !.stale = @ \/ (writer[o].pc = "update" /\ new # ext)]]
           /\ hist' = [hist EXCEPT !.lastOk[k] = writer[w].val,
                                   !.lastSucc[k] = writer[w].val]
    /\ UNCHANGED <<storeModel, Data, AuthKey, mutex, events, proxyVars, wdVars, srvVars>>

\* Model A. Update fails: the API server is unreachable, or it answers Conflict
\* because the resourceVersion of the fetched object is no longer the current one.
UpdateFails(w) ==
    /\ storeModel = "A"
    /\ writer[w].pc = "update"
    /\ writer' = [writer EXCEPT ![w] =
                    [IdleWriter(writer[w].calls, writer[w].key, writer[w].val, "err") EXCEPT
                        !.fetches = writer[w].fetches,
                        !.persists = writer[w].persists + 1]]
    /\ hist' = [hist EXCEPT !.lastOk[writer[w].key] = Absent]
    /\ UNCHANGED <<storeModel, Data, AuthKey, mutex, ext, events, proxyVars, wdVars, srvVars>>

(***************************************************************************)
(*                          THE SPECIFICATIONS                             *)
(***************************************************************************)

ProxyIdle ==
    /\ proxyCfg = [hook |-> "Rewrite", target |-> CHOOSE t \in Targets : t.path = << >>]
    /\ conn = [c \in Conns |-> [pc |-> "idle", in |-> NoReq, out |-> NoOut, who |-> NoWho, asked |-> << >>]]

StoreIdle ==
    /\ storeModel = "B"
    /\ ext = [authKey |-> "tskey-1", state |-> NoState, fields |-> EmptyMap]
    /\ Data = EmptyMap
    /\ AuthKey = ""
    /\ mutex = Free
    /\ events = << >>
    /\ writer = [w \in Writers |-> IdleWriter(0, "k1", "v1", "none")]
    /\ hist = [extEdits |-> 0, calls |-> 0, overlapped |-> FALSE, keysWritten |-> {},
               skipped |-> FALSE, built |-> FALSE, synced |-> FALSE,
               syncedAtReturn |-> FALSE, bootKey |-> "",
               reads |-> 0, lastRead |-> NoRead,
               legit |-> [k \in Keys |-> {}],
               lastOk |-> [k \in Keys |-> Absent],
               lastSucc |-> [k \in Keys |-> Absent]]

InitProxy == ProxyInit /\ StoreIdle /\ WatchdogInit /\ SupervisorIdle

NextProxy ==
    \E c \in Conns : ServeHTTP(c) \/ WhoIsReturns(c) \/ Respond(c)

SpecProxy == InitProxy /\ [][NextProxy]_vars

InitStore == ProxyIdle /\ StoreInit /\ WatchdogInit /\ SupervisorIdle

NextStore ==
    \/ \E w \in Writers :
         \/ CallWriteState(w)
         \/ WriteStateStage(w)
         \/ UpdateSecretOk(w)
         \/ UpdateSecretFails(w)
         \/ GetSecretOk(w)
         \/ GetSecretFails(w)
         \/ UpdateOk(w)
         \/ UpdateFails(w)
    \/ InformerDelivers
    \/ ExternalEdit
    \/ NewSecretStoreReturns

SpecStore == InitStore /\ [][NextStore]_vars

NextReaders ==
    \/ NextStore
    \/ CallReadState

SpecReaders == InitStore /\ [][NextReaders]_vars

NextInformer ==
    \/ NextStore
    \/ InformerSkips
    \/ OtherSecretChanges
    \/ Resync

SpecInformer == InitStore /\ [][NextInformer]_vars

InitWatchdog == ProxyIdle /\ StoreIdle /\ WatchdogInit /\ SupervisorIdle

NextWatchdog ==
    \/ TickerFires
    \/ Cancel
    \/ WatchdogSelectDone
    \/ WatchdogSelectTick
    \/ StatusReturns
    \/ WatchdogSend

SpecWatchdog == InitWatchdog /\ [][NextWatchdog]_vars

\* RunServer from its call to its return, with the goroutines it starts and
\* the connections its listener accepts.
InitServer == ProxyIdle /\ StoreIdle /\ WatchdogNotStarted /\ SupervisorInit

NextServer ==
    \/ ReadTokenFile
    \/ ConfigureStore
    \/ Listen
    \/ LocalClient
    \/ ParseURL
    \/ NewProxy
    \/ Up
    \/ StartServing
    \/ SupervisorSelect
    \/ SupervisorWakes
    \/ RunDeferredCall
    \/ ServeReturns
    \/ ServeSends
    \/ \E c \in ServedConns : Accept(c) \/ HandlerWhoIs(c) \/ HandlerResponds(c) \/ Abort(c)
    \/ NextWatchdog

SpecServer == InitServer /\ [][NextServer]_vars

(***************************************************************************)
(*                      THE PROPERTIES OF THE PROXY                        *)
(***************************************************************************)

Forwarded(c) == conn[c].pc = "forwarded"
Bearer == "Bearer " \o ServiceToken
IsSuffix(s, t) == Len(s) <= Len(t) /\ SubSeq(t, Len(t) - Len(s) + 1, Len(t)) = s

\* C1. Header hygiene: once the hook has stripped the headers (it is waiting
\* for WhoIs) the outbound request has neither Impersonate-User nor
\* Impersonate-Group, whatever the caller sent; a forwarded request has no
\* Impersonate-Group, and its Impersonate-User is absent or is the login name
\* WhoIs returned for this request (absent when WhoIs failed).
HeaderHygiene ==
    \A c \in Conns :
        /\ conn[c].pc = "whois" =>
              /\ conn[c].out.hdr["Impersonate-User"] = Absent
              /\ conn[c].out.hdr["Impersonate-Group"] = Absent
        /\ Forwarded(c) =>
              /\ conn[c].out.hdr["Impersonate-Group"] = Absent
              /\ \/ conn[c].out.hdr["Impersonate-User"] = Absent
                 \/ /\ ~conn[c].who.err
                    /\ conn[c].out.hdr["Impersonate-User"] = conn[c].who.LoginName

\* A caller that claimed to be alice of system:masters was resolved to bob, and
\* the request went upstream as bob.
HeaderHygieneWitness ==
    \E c \in Conns :
        /\ Forwarded(c)
        /\ conn[c].in.hdr["Impersonate-User"] = "alice"
        /\ conn[c].in.hdr["Impersonate-Group"] = "system:masters"
        /\ ~conn[c].who.err /\ conn[c].who.LoginName = "bob"
        /\ conn[c].out.hdr["Impersonate-User"] = "bob"

\* C2. When WhoIs succeeds with login name L, the forwarded request goes to
\* the target host with the inbound path and query kept (they follow the base
\* path and query of the target, and are unchanged when the target has none),
\* Impersonate-User is L and Authorization is "Bearer " and the service token.
ImpersonationOnSuccess ==
    \A c \in Conns :
        (Forwarded(c) /\ ~conn[c].who.err) =>
            /\ conn[c].out.host = proxyCfg.target.host
            /\ IsSuffix(conn[c].in.path, conn[c].out.path)
            /\ proxyCfg.target.path = << >> => conn[c].out.path = conn[c].in.path
            /\ proxyCfg.target.query = "" => conn[c].out.query = conn[c].in.query
            /\ conn[c].out.hdr["Impersonate-User"] = conn[c].who.LoginName
            /\ conn[c].out.hdr["Authorization"] = Bearer

\* C3. When WhoIs fails the request is forwarded all the same, without
\* Impersonate-User and without the service credential: its Authorization is
\* what the caller sent, or nothing.
SoftFailure ==
    \A c \in Conns :
        (Forwarded(c) /\ conn[c].who.err) =>
            /\ conn[c].out.host = proxyCfg.target.host
            /\ conn[c].out.hdr["Impersonate-User"] = Absent
            /\ conn[c].out.hdr["Authorization"] # Bearer
            /\ conn[c].out.hdr["Authorization"] \in {Absent, conn[c].in.hdr["Authorization"]}

\* A request with the caller's own credential and a spoofed user was forwarded
\* after WhoIs had failed.
SoftFailureWitness ==
    \E c \in Conns :
        /\ Forwarded(c) /\ conn[c].who.err
        /\ conn[c].in.hdr["Impersonate-User"] = "alice"
        /\ conn[c].in.hdr["Authorization"] = "Basic Y2FsbGVy"
        /\ conn[c].out.hdr["Authorization"] = "Basic Y2FsbGVy"

IdentityIsolation ==
    \A c \in Conns :
       /\ conn[c].pc \in {"whois", "forwarded"} => conn[c].asked = <<conn[c].in.addr>>
       /\ Forwarded(c) =>
             /\ conn[c].who \in WhoIs(conn[c].in.addr)
             /\ conn[c].out.hdr["Impersonate-Group"] = Absent
             /\ conn[c].out.hdr["Impersonate-User"] # Absent =>
                   /\ ~conn[c].who.err
                   /\ conn[c].out.hdr["Impersonate-User"] = Owner(conn[c].in.addr.ip)

\* C17. Per-request identity isolation: the resolver is called exactly once
\* for each forwarded request, with that request's own remote address; no
\* request is forwarded with the login name resolved for another request; and
\* the impersonation headers depend only on the result of that call: two
\* forwarded requests with the same result carry the same impersonation headers.
PerRequestIdentity ==
    /\ IdentityIsolation
    /\ \A c, d \in Conns :
          (Forwarded(c) /\ Forwarded(d) /\ conn[c].who = conn[d].who) =>
             /\ conn[c].out.hdr["Impersonate-User"] = conn[d].out.hdr["Impersonate-User"]
             /\ conn[c].out.hdr["Impersonate-Group"] = conn[d].out.hdr["Impersonate-Group"]

\* C23. Forwarded-for metadata: every forwarded request, whether the caller
\* was identified or not, carries an X-Forwarded-For header whose last (or
\* only) element is the IP of the inbound request's remote address; what
\* precedes it, if anything, is the X-Forwarded-For the caller sent.
ForwardedFor ==
    \A c \in Conns :
       Forwarded(c) =>
          /\ conn[c].out.hdr["X-Forwarded-For"] # Absent
          /\ conn[c].out.hdr["X-Forwarded-For"]
                \in {conn[c].in.addr.ip}
                    \cup (IF conn[c].in.hdr["X-Forwarded-For"] = Absent THEN {}
                          ELSE {conn[c].in.hdr["X-Forwarded-For"] \o ", "
                                   \o conn[c].in.addr.ip})

\* Two requests are forwarded at once, one identified and one not, the
\* second with a forwarding header of its own: both carry their caller's IP.
ForwardedForWitness ==
    /\ Forwarded("c1") /\ ~conn["c1"].who.err
    /\ conn["c1"].out.hdr["X-Forwarded-For"] = "100.64.0.1"
    /\ Forwarded("c2") /\ conn["c2"].who.err
    /\ conn["c2"].in.hdr["X-Forwarded-For"] = "6.6.6.6"
    /\ conn["c2"].in.addr.ip = "100.64.0.2"
    /\ conn["c2"].out.hdr["X-Forwarded-For"] \in {"100.64.0.2", "6.6.6.6, 100.64.0.2"}

\* C24. No credential without a principal: a forwarded request that carries
\* the service credential in Authorization carries an Impersonate-User header
\* that is not empty, also when the lookup succeeded with an empty login name.
CredentialHasPrincipal ==
    \A c \in Conns :
       (Forwarded(c) /\ conn[c].out.hdr["Authorization"] = Bearer) =>
          conn[c].out.hdr["Impersonate-User"] \notin {Absent, ""}

(***************************************************************************)
(*                     THE PROPERTIES OF THE WATCHDOG                      *)
(***************************************************************************)

Failing(status) == checkTailscaleStatus(status) # "nil"

\* C9. A watchdog failure is terminal and signalled once: the first status
\* query that fails or answers a state other than "Running" is the last query
\* the watchdog issues, it leads to the send of one failure signal and to the
\* end of the loop; there is never more than one signal, and none without a
\* failing query.
FailureIsTerminal ==
    /\ wd.signals <= 1
    /\ Len(errChan) = wd.signals
    /\ \A i \in 1..Len(pollLog) :
          Failing(pollLog[i]) =>
             /\ i = Len(pollLog)
             /\ wd.polls = i
             /\ wd.pc \in {"send", "stopped"}
             /\ wd.pc = "stopped" => (wd.signals = 1 /\ wd.exit = "failed")
    /\ wd.signals = 1 =>
          /\ wd.pc = "stopped"
          /\ pollLog # << >> /\ Failing(pollLog[Len(pollLog)])

\* Two queries answered "Running", the third "Stopped": the signal was sent
\* and the loop has ended.
FailureIsTerminalWitness ==
    /\ Len(pollLog) = 3
    /\ pollLog[1] = StatusRunning /\ pollLog[2] = StatusRunning
    /\ pollLog[3] = StatusStopped
    /\ wd.pc = "stopped" /\ wd.signals = 1 /\ Len(errChan) = 1

SignalAtFirstFailure ==
    /\ (\A i \in 1..Len(pollLog) : pollLog[i] = StatusRunning) => wd.signals = 0
    /\ wd.signals >= 1 =>
          /\ wd.signals = 1
          /\ pollLog # << >>
          /\ Failing(pollLog[Len(pollLog)])
          /\ \A i \in 1..(Len(pollLog) - 1) : pollLog[i] = StatusRunning

\* C11. Watchdog signal timing: no failure signal while every poll so far
\* answered "Running"; the single signal comes at the first poll that does
\* not; and when the context was cancelled before that poll was issued, no
\* signal is sent at all.
SignalTiming ==
    /\ SignalAtFirstFailure
    /\ wd.issuedCancelled => wd.signals = 0

(***************************************************************************)
(*                    THE PROPERTIES OF THE SUPERVISOR                     *)
(***************************************************************************)

Elems(seq) == {seq[i] : i \in 1..Len(seq)}

\* RunServer has returned, or is running its deferred calls on the way out.
Ended == srv.pc \in {"deferred", "returned"}

\* The errors RunServer can return from its select.
ConnectionErrors ==
    { "connection error: tailscale watchdog check failed: " \o checkTailscaleStatus(st) :
        st \in {StatusStopped, StatusTimeout, StatusCanceled} }
ServerErrors ==
    { "HTTP server error: " \o e : e \in {"accept failed", "use of closed network connection"} }

\* The result answers to the case the select took.
ResultOfChosen ==
    /\ srv.chose = "done" => srv.result = "nil"
    /\ srv.chose = "tsError" => srv.result \in ConnectionErrors
    /\ srv.chose = "serverError" => srv.result \in ServerErrors

\* C12 (as stated). Once serving has started the run ends on exactly one of
\* the three events, the one that fired first, with the result of that event;
\* it never ends without one and never returns twice.
SupervisorOutcome ==
    /\ srv.returns <= 1
    /\ (Ended /\ serve # "none") => srv.chose # ""
    /\ srv.chose # "" =>
          /\ Ended
          /\ srv.chose = Head(srv.fired)
          /\ ResultOfChosen

\* C12 (amended). Once serving has started the run ends on exactly one of the
\* three events, one that had fired when the select chose: the first to fire
\* when RunServer was already waiting in the select, any of those that had
\* fired when it reached the select otherwise. The result is that of the
\* chosen event; the run never ends without one and never returns twice.
SupervisorOutcomeOfChosen ==
    /\ srv.returns <= 1
    /\ (Ended /\ serve # "none") => srv.chose # ""
    /\ srv.chose # "" =>
          /\ Ended
          /\ srv.chose \in srv.ready
          /\ srv.ready \subseteq Elems(srv.fired)
          /\ srv.woke # "" => srv.chose = Head(srv.fired)
          /\ ResultOfChosen

\* The context was cancelled and the listener then failed, both before
\* RunServer reached its select, and the select took the listener's error.
SupervisorOutcomeOfChosenWitness ==
    /\ srv.pc = "returned"
    /\ srv.fired = <<"done", "serverError">>
    /\ srv.chose = "serverError"
    /\ srv.result = "HTTP server error: accept failed"

\* No status query found the backend in another state than "Running" or
\* timed out: the only queries that failed are those the cancellation failed.
BackendStaysRunning ==
    \A i \in 1..Len(pollLog) : pollLog[i] \in {StatusRunning, StatusCanceled}

\* C13. Clean shutdown on cancellation: when the backend stays "Running" and
\* the listener never fails, a run whose context is cancelled by the time the
\* select chooses returns no error, however the watchdog and the serve
\* goroutine were scheduled.
CleanShutdownOnCancel ==
    (srv.chose # "" /\ "done" \in srv.ready /\ BackendStaysRunning /\ ~srv.lnFailed)
       => srv.result = "nil"

\* C14. Guaranteed release: when RunServer has returned after acquiring the
\* listener, the listener was closed and then the node, in that order; when it
\* has returned with only the node registered, the node was closed. The node
\* is never closed before the listener.
GuaranteedRelease ==
    /\ srv.node = "closed" => srv.ln \in {"none", "closed"}
    /\ srv.pc = "returned" =>
          /\ srv.ln # "none" =>
                (srv.released = <<"ln.Close", "s.Close">>
                   /\ srv.ln = "closed" /\ srv.node = "closed")
          /\ (srv.ln = "none" /\ srv.defers # << >>) =>
                (srv.released = <<"s.Close">> /\ srv.node = "closed")

\* The run ended on a watchdog failure and released both.
GuaranteedReleaseWitness ==
    /\ srv.pc = "returned"
    /\ srv.chose = "tsError"
    /\ srv.released = <<"ln.Close", "s.Close">>

\* C15. Graceful drain: when the run ends by cancellation, no request is in
\* flight when the listener or the node is closed, and none is aborted: the
\* requests in flight at the cancellation completed first.
GracefulDrain ==
    srv.chose = "done" =>
       \A c \in Conns :
          (srv.ln = "closed" \/ srv.node = "closed")
             => conn[c].pc \notin {"whois", "forwarded", "aborted"}

\* The configuration is in error: the credential file cannot be read, the
\* URL cannot be parsed, or the CA file cannot be read or holds no certificate.
BadConfig(cfg) ==
    \/ ReadFile(cfg.tokenFile).err # "nil"
    \/ UrlParse(cfg.apiURL).err # "nil"
    \/ /\ cfg.caFile # ""
       /\ \/ ReadFile(cfg.caFile).err # "nil"
          \/ ~AppendCertsFromPEM(ReadFile(cfg.caFile).data)

\* C16. Configuration errors are fatal before serving: with such a
\* configuration the watchdog and the accept loop are never started, no
\* request is served, and what RunServer returns is an error.
ConfigErrorsAreFatal ==
    BadConfig(srv.cfg) =>
       /\ wd.pc = "none"
       /\ serve = "none"
       /\ srv.pc \notin {"serving", "select", "parked"}
       /\ \A c \in Conns : conn[c].pc = "idle"
       /\ Ended => srv.result \in {"failed to read service account token",
                                   "failed to initialize secret store",
                                   "failed to create listener",
                                   "failed to get local Tailscale client",
                                   "failed to parse kubernetes API URL",
                                   "failed to initialize kubernetes proxy"}

\* The CA file holds no certificate: RunServer got as far as building the
\* proxy, returned its error and released the listener and the node.
ConfigErrorsAreFatalWitness ==
    /\ srv.pc = "returned"
    /\ srv.cfg.caFile = "/ca/garbage.crt"
    /\ srv.result = "failed to initialize kubernetes proxy"
    /\ srv.released = <<"ln.Close", "s.Close">>

\* C26. Background tasks never block on their result: the watchdog and the
\* serve goroutine each send at most one value, on a channel of capacity one
\* that nobody else sends on, so whenever one of them is at its send the
\* channel has room, also after RunServer has returned on another event.
SendsNeverBlock ==
    /\ wd.signals <= 1
    /\ srv.serveSends <= 1
    /\ Len(errChan) <= ErrChanCap
    /\ Len(serverError) <= ServerErrorCap
    /\ wd.pc = "send" => Len(errChan) < ErrChanCap
    /\ serve = "send" => Len(serverError) < ServerErrorCap

\* RunServer returned on the cancellation; afterwards the watchdog sent its
\* failure and the serve goroutine the error of the closed listener, and both
\* have ended with their values left in the channels.
SendsNeverBlockWitness ==
    /\ srv.pc = "returned" /\ srv.chose = "done"
    /\ wd.pc = "stopped" /\ wd.signals = 1 /\ Len(errChan) = 1
    /\ serve = "returned" /\ srv.serveSends = 1
    /\ serverError = <<"use of closed network connection">>

\* C28. Startup ordering: the watchdog and the accept loop run, a request is
\* served and a status poll is issued only after Up returned without error;
\* when Up fails RunServer returns its error and none of them ever happens.
StartupOrdering ==
    /\ (wd.pc # "none" \/ serve # "none" \/ wd.polls > 0
          \/ \E c \in Conns : conn[c].pc # "idle") => srv.up = "ok"
    /\ srv.up = "failed" =>
          /\ Ended
          /\ srv.result = "failed to connect to tailnet"
          /\ wd.pc = "none" /\ serve = "none" /\ wd.polls = 0
          /\ \A c \in Conns : conn[c].pc = "idle"

\* Up failed: RunServer has returned the error and released the listener
\* and the node; nothing was started.
StartupOrderingWitness ==
    /\ srv.pc = "returned"
    /\ srv.up = "failed"
    /\ srv.released = <<"ln.Close", "s.Close">>
    /\ wd.pc = "none" /\ serve = "none"

(***************************************************************************)
(*                      THE PROPERTIES OF THE STORE                        *)
(***************************************************************************)

AllReturned == \A w \in Writers : ~InFlight(w)

\* C5. Round trip: when WriteState(k, v) has returned nil, no later write of k
\* has failed, no write of k is under way and no other process has changed the
\* Secret, ReadState(k) returns v and no error, whatever notifications the
\* informer has delivered in between.
RoundTrip ==
    \A k \in Keys :
        ( /\ hist.extEdits = 0
          /\ hist.lastOk[k] # Absent
          /\ \A w \in Writers : InFlight(w) => writer[w].key # k )
        => ReadState(k) = [data |-> hist.lastOk[k], err |-> "nil"]

\* C6. Rollback: when updateSecret fails in WriteState(k, v), ReadState(k)
\* returns right after the failed write what it returned right before it: the
\* previous value, or ErrStateNotExist when k was not in the map.
RollbackRestoresRead ==
    [][ \A w \in Writers :
          (writer[w].pc = "persist" /\ writer'[w].pc = "idle" /\ writer'[w].res = "err")
          => ReadStateB(Data', writer[w].key) = writer[w].pre ]_vars

\* C7. Writers of the cached store are serialized: at most one of them is
\* between staging and persist or rollback, it holds the mutex, and the map is
\* all that time the map it staged, so what updateSecret marshals is that
\* complete map; and once all writers have returned, all of them having written
\* one same key and one at least with success, the Secret holds for that key
\* the value of one of the successful writers, the last one, and so does the
\* map once the informer has delivered the notifications it holds.
WriterSerialization ==
    storeModel = "B" =>
        /\ Cardinality({w \in Writers : InCycle(w)}) <= 1
        /\ \A w \in Writers : InCycle(w) => (mutex = w /\ Data = writer[w].snap)
        /\ mutex # Free => InCycle(mutex)
        /\ \A k \in Keys :
              (AllReturned /\ hist.extEdits = 0 /\ hist.keysWritten = {k}
                 /\ hist.lastSucc[k] # Absent)
              => /\ ExtValue(k) = hist.lastSucc[k]
                 /\ events = << >> => ReadState(k) = [data |-> hist.lastSucc[k], err |-> "nil"]

\* Two overlapping calls wrote different values to one key, both with success.
WriterSerializationWitness ==
    /\ storeModel = "B" /\ AllReturned /\ hist.overlapped /\ hist.extEdits = 0
    /\ hist.keysWritten = {"k1"}
    /\ \A w \in Writers : writer[w].calls = 1 /\ writer[w].res = "ok"
    /\ writer["w1"].val # writer["w2"].val
    /\ ExtValue("k1") = hist.lastSucc["k1"]

\* C8. No lost updates between the writers of this process, in either store:
\* never are two writers at once between the read half and the write half of
\* their cycle; and when two overlapping WriteState calls on distinct keys, the
\* only calls made, have both returned nil, the Secret holds both values.
NoLostUpdates ==
    /\ Cardinality({w \in Writers : InCycle(w)}) <= 1
    /\ ( /\ AllReturned /\ hist.overlapped /\ hist.extEdits = 0
         /\ \A w \in Writers : writer[w].calls = 1 /\ writer[w].res = "ok"
         /\ writer["w1"].key # writer["w2"].key )
       => \A w \in Writers : ExtValue(writer[w].key) = writer[w].val

\* The informer hands a notification of the store's own Secret to the handler.
Delivery ==
    /\ storeModel = "B"
    /\ events # << >>
    /\ Head(events).name = SecretName
    /\ events' = Tail(events)

\* The state map a Secret carries (no map when it has no "state" field).
Carried(secret) == Unmarshal(secret.state, EmptyMap).m

\* C18. Full replacement on observed update: each time an update of the
\* store's own Secret is delivered, the in-memory map afterwards is exactly
\* the state map the delivered object carries; keys that were in memory and
\* are not in the object are gone.
FullReplacement ==
    [][Delivery => Data' = Carried(Head(events))]_vars

\* A notification of another Secret is handed to AddFunc or UpdateFunc.
ForeignDelivery ==
    /\ storeModel = "B"
    /\ events # << >>
    /\ Head(events).name # SecretName
    /\ events' = Tail(events)

\* C19. Foreign objects are ignored: an add or update event for a Secret
\* whose name is not the store's leaves the in-memory map and the bootstrap
\* credential as they were.
ForeignIgnored ==
    [][ForeignDelivery => (Data' = Data /\ AuthKey' = AuthKey)]_vars

\* An event of another Secret went by and the store holds its own Secret's
\* credential and a written value.
ForeignIgnoredWitness ==
    /\ storeModel = "B"
    /\ hist.skipped
    /\ AuthKey = "tskey-1"
    /\ Data # EmptyMap
    /\ events = << >>

\* C20. Shared-map mutual exclusion: the in-memory map and the credential
\* change only in a step of a writer that holds the mutex (staging when it
\* takes it, rollback when it releases it) or in a step of the handler taken
\* while no writer holds it; no notification is delivered between a writer's
\* staging and its persist or rollback.
MapMutualExclusion ==
    [][storeModel = "B" =>
         /\ (Data' # Data \/ AuthKey' # AuthKey) =>
               \/ \E w \in Writers :
                     /\ mutex = Free /\ mutex' = w
                     /\ writer[w].pc = "lock" /\ writer'[w].pc = "persist"
               \/ \E w \in Writers :
                     /\ mutex = w /\ mutex' = Free
                     /\ writer[w].pc = "persist" /\ writer'[w].pc = "idle"
               \/ (Delivery /\ mutex = Free /\ mutex' = Free
                      /\ \A w \in Writers : ~InCycle(w))
         /\ (\E w \in Writers : InCycle(w)) => ~Delivery]_vars

\* A writer has staged its value and holds the mutex while a notification
\* that would change the map waits for the handler.
MapMutualExclusionWitness ==
    /\ storeModel = "B"
    /\ \E w \in Writers : writer[w].pc = "persist" /\ mutex = w
    /\ events # << >>
    /\ Head(events).name = SecretName
    /\ informerHandler(Head(events), Data).Data # Data

\* A step of WriteState: the position of some caller in it changes.
WriteStep == \E w \in Writers : writer'[w].pc # writer[w].pc

\* C27. Write leaves the bootstrap credential alone: no step of WriteState,
\* of a call that succeeds or of one that fails, changes the in-memory AuthKey
\* or the authKey field of the Secret, and what the cached store sends changes
\* nothing of the Secret but its state field.
WriteKeepsCredential ==
    [][WriteStep =>
         /\ AuthKey' = AuthKey
         /\ ext'.authKey = ext.authKey
         /\ storeModel = "B" => ext' = [ext EXCEPT !.state = ext'.state]]_vars

\* The cached store holds the credential of the Secret; one WriteState has
\* returned nil with its value in the Secret, another has returned an error.
WriteKeepsCredentialWitness ==
    /\ storeModel = "B"
    /\ AuthKey = "tskey-1" /\ ext.authKey = "tskey-1"
    /\ \E w, o \in Writers :
         /\ writer[w].res = "ok" /\ writer[o].res = "err"
         /\ ExtValue(writer[w].key) = writer[w].val

\* A WriteState call that has returned.
Returned(w) == writer[w].res \in {"ok", "err"}

\* C21 (as stated). External call count: every WriteState that has returned
\* issued exactly one persistence call (Patch or Update), whether it returned
\* nil or an error, and a ReadState of the cached store issued no external call.
ExactlyOnePersistenceCall ==
    /\ \A w \in Writers : Returned(w) => writer[w].persists = 1
    /\ (storeModel = "B" /\ hist.reads > 0) => hist.lastRead.calls = 0

\* C21 (amended). No WriteState issues more than one persistence call, so a
\* failed write is not retried; one that returned nil issued exactly one; one
\* of the cached store that returned an error issued exactly one; one of the
\* synchronous store issued one fetch, and issued no persistence call when it
\* returned the error of that fetch. A ReadState issued no external call in
\* the cached store and one fetch in the synchronous store.
ExternalCallCount ==
    /\ \A w \in Writers :
         /\ writer[w].persists <= 1 /\ writer[w].fetches <= 1
         /\ writer[w].res = "ok" => writer[w].persists = 1
         /\ (storeModel = "B" /\ Returned(w)) =>
               writer[w].persists = 1 /\ writer[w].fetches = 0
         /\ (storeModel = "A" /\ Returned(w)) => writer[w].fetches = 1
    /\ hist.reads > 0 => hist.lastRead.calls = (IF storeModel = "B" THEN 0 ELSE 1)

\* A WriteState of the synchronous store has returned the error of its fetch
\* without a persistence call, and a ReadState has been served.
ExternalCallCountWitness ==
    /\ storeModel = "A"
    /\ hist.reads > 0
    /\ \E w \in Writers :
         writer[w].res = "err" /\ writer[w].fetches = 1 /\ writer[w].persists = 0

\* C22. Initial synchronization: when NewSecretStore of the cached store has
\* returned, the first snapshot of the Secret had been applied to memory, so
\* the credential RunServer copies is the one of the Secret, and a ReadState
\* made before any write and any change of the Secret returns what the Secret
\* holds for the key.
InitialSynchronization ==
    /\ (storeModel = "B" /\ hist.built) => hist.syncedAtReturn
    /\ (storeModel = "B" /\ hist.built /\ hist.extEdits = 0) =>
          hist.bootKey = ext.authKey
    /\ (storeModel = "B" /\ hist.reads > 0 /\ hist.calls = 0 /\ hist.extEdits = 0) =>
          hist.lastRead.result =
              ReadStateB(Unmarshal(ext.state, EmptyMap).m, hist.lastRead.key)

\* The WriteState call whose staged value the last ReadState may have seen.
StagedFor(r) == r.by # Free /\ writer[r.by].calls = r.byCall

\* C25. No dirty reads: a ReadState of the cached store that returned bytes
\* returned bytes that this process has persisted or that a notification of
\* the Secret carried, unless the WriteState that staged them is still at its
\* persistence call; it never returned bytes staged by a WriteState whose
\* persistence then failed.
NoDirtyReads ==
    (storeModel = "B" /\ hist.reads > 0 /\ hist.lastRead.result.err = "nil"
        /\ hist.lastRead.result.data # NilBytes) =>
        LET r == hist.lastRead
        IN  \/ r.result.data \in hist.legit[r.key]
            \/ /\ StagedFor(r)
               /\ writer[r.by].pc = "persist"
               /\ r.result.data = writer[r.by].val

====
